---- MODULE Spec2Model ----
(***************************************************************************)
(* Model of release-discussion-action (src/src/index.ts, src/src/queries.ts)*)
(*                                                                         *)
(* Time is counted in hours since 2001-01-01T00:00 (a Monday).  The        *)
(* process runs with the local time zone equal to UTC and without          *)
(* daylight saving, as on the hosted runners of the workflow in            *)
(* src/readme.md, so local calendar fields and toISOString() agree.        *)
(***************************************************************************)
EXTENDS Integers, Sequences, FiniteSets, TLC

VARIABLES
    cycleLength,   \* index.ts:18   'week' | 'month', read once from the input
    probe,         \* the cycle calculator applied to one input
    isPrivate,     \* index.ts:58   payload.repository.private, the same
                   \* for every event of the releasing repository
    now,           \* the remote store's clock: index into Times
    discussions,   \* the remote store: the discussions of the category
    nextId,        \* the remote store: id of the next comment it creates
    inv            \* the invocations of main(): position and local variables

(***************************************************************************)
(* Calendar arithmetic of the JavaScript Date object                        *)
(***************************************************************************)

\* index.ts:22   24 * 60 * 60 * 1000 ms, in the model's unit (one hour)
DayLen == 24

IsLeap(y) == (y % 4 = 0 /\ y % 100 # 0) \/ y % 400 = 0

LeapsBefore(y) == ((y - 1) \div 4) - ((y - 1) \div 100) + ((y - 1) \div 400)

\* day number of January 1 of year y, counted from 2001-01-01
Jan1(y) == 365 * (y - 2001) + LeapsBefore(y) - LeapsBefore(2001)

\* days of year y before month m (0-based, m = 12 is the whole year)
DaysBeforeMonth(y, m) ==
    <<0, 31, 59, 90, 120, 151, 181, 212, 243, 273, 304, 334, 365>>[m + 1]
        + (IF m >= 2 /\ IsLeap(y) THEN 1 ELSE 0)

\* new Date(year, month, day): years 0..99 are 1900 + year, the month
\* overflows into the year, the day overflows linearly
MakeDate(year, month, day) ==
    LET yr == IF year >= 0 /\ year <= 99 THEN 1900 + year ELSE year
        yy == yr + (month \div 12)
        mm == month % 12
    IN  (Jan1(yy) + DaysBeforeMonth(yy, mm) + day - 1) * DayLen

DayOf(date) == date \div DayLen

GetFullYear(date) ==
    LET d == DayOf(date)
    IN  CHOOSE y \in (2001 + d \div 366)..(2001 + d \div 365) :
            Jan1(y) <= d /\ d < Jan1(y + 1)

GetMonth(date) ==
    LET y   == GetFullYear(date)
        doy == DayOf(date) - Jan1(y)
    IN  CHOOSE m \in 0..11 :
            DaysBeforeMonth(y, m) <= doy /\ doy < DaysBeforeMonth(y, m + 1)

\* day of the month, 1-based
GetDate(date) ==
    DayOf(date) - Jan1(GetFullYear(date))
        - DaysBeforeMonth(GetFullYear(date), GetMonth(date)) + 1

\* day of the week, 0 = Sunday .. 6 = Saturday
GetDay(date) == (DayOf(date) + 1) % 7

\* date.setDate(n): same year, month and time of day, day of month n
SetDate(date, n) ==
    MakeDate(GetFullYear(date), GetMonth(date), n) + (date % DayLen)

\* toISOString().substring(0, 10): the calendar day
IsoDay(date) == DayOf(date)

\* toISOString().substring(0, 7): year and 1-based month
IsoMonth(date) == <<GetFullYear(date), GetMonth(date) + 1>>

(***************************************************************************)
(* Cycle calculator, index.ts:20-52                                        *)
(***************************************************************************)

\* getWeekNumber counting the days from 0, without the + 1 of index.ts:22
getWeekNumberFromZero(date) ==
    LET startDate == MakeDate(GetFullYear(date), 0, 1)
        days      == (date - startDate) \div DayLen
    IN  (days + 6) \div 7

getWeekNumber(date) ==
    LET startDate == MakeDate(GetFullYear(date), 0, 1)
        days      == ((date - startDate) \div DayLen) + 1
    IN  (days + 6) \div 7

getFirstDayOfWeek(weekNumber, year) ==
    LET startDate == MakeDate(year, 0, 1)
        dayNum    == GetDay(startDate)
        diff      == (weekNumber - 1) * 7
        adjusted  == IF dayNum # 1
                     THEN SetDate(startDate, GetDate(startDate) - (dayNum - 1))
                     ELSE startDate
    IN  SetDate(adjusted, GetDate(adjusted) + diff)

getFirstDayOfMonth(month, year) == MakeDate(year, month, 1)

getCycleId(date, len) ==
    IF len = "week"
    THEN [kind |-> "week", year |-> GetFullYear(date), n |-> getWeekNumber(date)]
    ELSE [kind |-> "month",
          year |-> IsoMonth(MakeDate(GetFullYear(date), GetMonth(date), 1))[1],
          n    |-> IsoMonth(MakeDate(GetFullYear(date), GetMonth(date), 1))[2]]

getCycleName(date, len) ==
    IF len = "week"
    THEN [kind |-> "Week", year |-> GetFullYear(date), n |-> getWeekNumber(date)]
    ELSE [kind |-> "Month", year |-> GetFullYear(date), n |-> GetMonth(date) + 1]

\* index.ts:74-76
WindowFrom(releaseDate, len) ==
    IF len = "week"
    THEN getFirstDayOfWeek(getWeekNumber(releaseDate), GetFullYear(releaseDate))
    ELSE getFirstDayOfMonth(GetFullYear(releaseDate), GetMonth(releaseDate))

\* index.ts:78-80
WindowTo(releaseDate, len) ==
    IF len = "week"
    THEN getFirstDayOfWeek(getWeekNumber(releaseDate) + 1, GetFullYear(releaseDate))
    ELSE getFirstDayOfMonth(GetFullYear(releaseDate), GetMonth(releaseDate) + 1)

(***************************************************************************)
(* Bodies.  A body is a sequence of tokens: a marker, a sentinel, a line   *)
(* of the table of contents, a run of whitespace, or other text.  A        *)
(* release identity name@tag is the sequence of its '@'-separated          *)
(* segments, so that a name holding an '@' splits as the regular           *)
(* expression of index.ts:154 splits it.                                   *)
(***************************************************************************)

Ws == [t |-> "ws"]

\* index.ts:111   <!-- START-RELEASE-TOC --> and <!-- END-RELEASE-TOC -->
StartToc == [t |-> "start"]

EndToc == [t |-> "end"]

\* index.ts:71   `<!-- release-cycle:${getCycleId(releaseDate, cycleLength)} -->`
CycleMarker(id) == [t |-> "cycle", id |-> id]

\* index.ts:117-118   `<!-- release-item:${release.name}@${release.tag_name} -->`
ReleaseName(release) == release.name \o release.tag

ReleaseMarker(ident) == [t |-> "item", ident |-> ident]

\* index.ts:169   '**Releases**'
TocHeader == [t |-> "header"]

\* index.ts:173   `- [**${release.name}**: ${release.version}](${release.url})`
TocBullet(r) ==
    [t |-> "bullet", name |-> r.name, version |-> r.version, url |-> r.url]

\* String.prototype.includes for a marker
Includes(body, tok) == \E i \in 1..Len(body) : body[i] = tok

\* Array.prototype.find: the first element passing the test, or none
None == [id |-> 0]

\* (passing: the indices of the elements that pass the test)
Find(seq, passing) ==
    IF passing # {}
    THEN seq[CHOOSE i \in passing : \A j \in passing : i <= j]
    ELSE None

\* CommentBody with the title of index.ts:127 linked whatever the repository
CommentBodyLinked(ev) ==
    <<ReleaseMarker(ReleaseName(ev.release)), Ws,
      [t     |-> "title",
       ident |-> ReleaseName(ev.release),
       link  |-> "html_url"],
      Ws,
      [t |-> "text", s |-> ev.notes]>>

\* index.ts:127-128   the comment body of a release
CommentBody(ev) ==
    <<ReleaseMarker(ReleaseName(ev.release)), Ws,
      [t     |-> "title",
       ident |-> ReleaseName(ev.release),
       link  |-> IF isPrivate THEN "none" ELSE "html_url"],
      Ws,
      [t |-> "text", s |-> ev.notes]>>

\* index.ts:111   the body of a new discussion
NewDiscussionBody(cycleIdentifier) ==
    <<cycleIdentifier, Ws, StartToc, Ws, EndToc>>

\* index.ts:154-158   comment.body.match(/<!-- release-item:(.*?)@(.*?) -->/):
\* the first marker of the body, split at its first '@'
IsItem(tok) == tok.t = "item" /\ Len(tok.ident) >= 2

ParseReleaseMarker(body) ==
    LET m == Find(body, {i \in 1..Len(body) : IsItem(body[i])})
    IN  IF m = None
        THEN None
        ELSE [id |-> 1, name |-> Head(m.ident), version |-> Tail(m.ident)]

\* the release names of the model in the order of their UTF-16 code units,
\* which is the order of Array.prototype.sort()
NameOrder == <<"", "Zpkg", "apkg", "constructor", "mypkg">>

NameRank(n) == CHOOSE i \in 1..Len(NameOrder) : NameOrder[i] = n

\* index.ts:171   Object.keys(releases).sort()
RECURSIVE SortNames(_)
SortNames(S) ==
    IF S = {}
    THEN <<>>
    ELSE LET first == CHOOSE n \in S : \A o \in S : NameRank(n) <= NameRank(o)
         IN  <<first>> \o SortNames(S \ {first})

\* index.ts:153-167   the releases of the comments that carry a marker,
\* in the order of the comments
RECURSIVE ParseReleases(_)
ParseReleases(comments) ==
    IF comments = <<>>
    THEN <<>>
    ELSE LET c == Head(comments)
             m == ParseReleaseMarker(c.body)
         IN  (IF m = None
              THEN <<>>
              ELSE <<[id |-> c.id, name |-> m.name, version |-> m.version,
                      url |-> c.id]>>)
             \o ParseReleases(Tail(comments))

\* index.ts:149, 160-161   releases = {} inherits the properties of
\* Object.prototype: for a name that is one of them, releases[name] ??= []
\* assigns nothing and releases[name].push is not a function
InheritedKeys == {"constructor"}

TocThrows(comments) ==
    \E i \in 1..Len(comments) :
        /\ ParseReleaseMarker(comments[i].body) # None
        /\ ParseReleaseMarker(comments[i].body).name \in InheritedKeys

\* index.ts:169-175   the lines of the table, joined by "\n"
RECURSIVE TocLines(_, _)
TocLines(names, releases) ==
    IF names = <<>>
    THEN <<>>
    ELSE LET ofName(r) == r.name = Head(names)
             group     == SelectSeq(releases, ofName)
             Line(i)   == <<Ws, TocBullet(group[i])>>
             RECURSIVE Lines(_)
             Lines(i)  == IF i > Len(group) THEN <<>> ELSE Line(i) \o Lines(i + 1)
         IN  Lines(1) \o TocLines(Tail(names), releases)

\* String.prototype.trim
RECURSIVE Trim(_)
Trim(s) ==
    IF s = <<>> THEN s
    ELSE IF Head(s) = Ws THEN Trim(Tail(s))
    ELSE IF s[Len(s)] = Ws THEN Trim(SubSeq(s, 1, Len(s) - 1))
    ELSE s

\* index.ts:149-177   tocMarkdown
TocMarkdown(comments) ==
    LET releases == ParseReleases(comments)
        names    == SortNames({releases[i].name : i \in 1..Len(releases)})
    IN  Trim(<<TocHeader, Ws>> \o TocLines(names, releases))

\* the sentinel pair the regular expression of index.ts:181 matches: the
\* first START sentinel and the first END sentinel after it
TocStart(body) ==
    IF \E i \in 1..Len(body) : body[i] = StartToc
                               /\ \E j \in (i + 1)..Len(body) : body[j] = EndToc
    THEN CHOOSE i \in 1..Len(body) :
             /\ body[i] = StartToc
             /\ \E j \in (i + 1)..Len(body) : body[j] = EndToc
             /\ \A k \in 1..(i - 1) :
                    ~(body[k] = StartToc /\ \E j \in (k + 1)..Len(body) : body[j] = EndToc)
    ELSE 0

TocEnd(body) ==
    CHOOSE j \in (TocStart(body) + 1)..Len(body) :
        body[j] = EndToc /\ \A k \in (TocStart(body) + 1)..(j - 1) : body[k] # EndToc

\* index.ts:181   the table is part of the replacement string of
\* String.prototype.replace, in which "$2" stands for the second group of
\* the match, the END sentinel: a bullet whose release name or version
\* holds "$2" is inserted with the sentinel in its place
DollarEnd == "$2"

HasDollarEnd(tok) ==
    /\ tok.t = "bullet"
    /\ \/ tok.name = DollarEnd
       \/ \E i \in 1..Len(tok.version) : tok.version[i] = DollarEnd

RECURSIVE Substitute(_)
Substitute(toc) ==
    IF toc = <<>>
    THEN <<>>
    ELSE (IF HasDollarEnd(Head(toc))
          THEN <<[t |-> "text", s |-> "bullet, up to $2"], EndToc,
                 [t |-> "text", s |-> "bullet, after $2"]>>
          ELSE <<Head(toc)>>)
         \o Substitute(Tail(toc))

\* index.ts:180-181   discussion.body.replace(/(START)[\s\S]*?(END)/, `$1\n${toc}\n$2`)
ReplaceToc(body, tocMarkdown) ==
    IF TocStart(body) = 0
    THEN body
    ELSE SubSeq(body, 1, TocStart(body)) \o <<Ws>> \o Substitute(tocMarkdown)
             \o <<Ws>> \o SubSeq(body, TocEnd(body), Len(body))

\* index.ts:183   body.replace(/\s/g, '')
NotWs(tok) == tok # Ws

StripWs(body) == SelectSeq(body, NotWs)

\* the text between the sentinels of a body, whitespace removed
TocRegion(body) ==
    IF TocStart(body) = 0
    THEN <<>>
    ELSE StripWs(SubSeq(body, TocStart(body) + 1, TocEnd(body) - 1))

(***************************************************************************)
(* The remote store (src/src/queries.ts) and the release events            *)
(***************************************************************************)

\* discussions the store holds besides the one it starts with
MaxDiscussions == 2

\* comments the store creates in all
MaxComments == 2

\* queries.ts:49   $first: Int = 100
PageSize == 100

\* the times at which invocations run
Times ==
    <<MakeDate(2025, 2, 14) + 13, MakeDate(2025, 2, 17) + 13>>

\* payload.release: name, tag_name, published_at
Releases ==
    { [name |-> <<"mypkg">>, tag |-> <<"v1.2.0">>,
       publishedAt |-> MakeDate(2025, 2, 14) + 12],
      [name |-> <<"apkg">>, tag |-> <<"v1.0.0">>,
       publishedAt |-> MakeDate(2025, 2, 17) + 12] }

\* github.context.payload of a release event.  release.body is what the
\* release was created with, or what an edit has made of it.
Events ==
    { ev \in [action  : {"created", "edited", "deleted"},
              draft   : BOOLEAN,
              release : Releases,
              notes   : {"notes1", "notes2"}] :
          ev.notes = "notes2" => ev.action = "edited" }

NoEvent == [action |-> "none"]

Procs == {1, 2}

\* a discussion of the category that this program did not write
ForeignDiscussion ==
    [createdAt |-> IsoDay(MakeDate(2025, 2, 13)),
     title     |-> [kind |-> "other"],
     body      |-> <<[t |-> "text", s |-> "about the release cycle"]>>,
     comments  |-> <<>>]

\* queries.ts:18-44   the discussions of the category created in
\* [from, to) that the search backend returns for the marker: every one
\* that holds it and, when approx, those that only resemble it
SearchResult(from, to, search, approx) ==
    LET Hit(i) == /\ IsoDay(from) <= discussions[i].createdAt
                  /\ discussions[i].createdAt < IsoDay(to)
                  /\ (Includes(discussions[i].body, search) \/ approx)
        RECURSIVE Nodes(_)
        Nodes(i) ==
            IF i > Len(discussions) THEN <<>>
            ELSE (IF Hit(i)
                  THEN <<[id |-> i, title |-> discussions[i].title,
                          body |-> discussions[i].body]>>
                  ELSE <<>>) \o Nodes(i + 1)
    IN  Nodes(1)

\* queries.ts:46-92   getDiscussionById: pages of PageSize comments are
\* fetched from the cursor of the page before until hasNextPage is false
\* queries.ts:57-67   comments(first: $first, after: $after): the page of
\* the comments that follow the cursor.  A cursor is the number of comments
\* up to it, and no cursor is 0.
Page(all, after) ==
    LET last == IF after + PageSize < Len(all) THEN after + PageSize ELSE Len(all)
    IN  [nodes    |-> SubSeq(all, after + 1, last),
         pageInfo |-> [hasNextPage |-> last < Len(all), endCursor |-> last]]

RECURSIVE FetchPages(_, _)
FetchPages(all, after) ==
    LET result == Page(all, after)
    IN  IF result.pageInfo.hasNextPage
        THEN result.nodes \o FetchPages(all, result.pageInfo.endCursor)
        ELSE result.nodes

getDiscussionById(discussionId) ==
    [id       |-> discussionId,
     body     |-> discussions[discussionId].body,
     comments |-> FetchPages(discussions[discussionId].comments, 0)]

\* the store after a comment mutation
RemoveComment(commentId) ==
    [i \in 1..Len(discussions) |->
        [discussions[i] EXCEPT !.comments =
            SelectSeq(@, LAMBDA c : c.id # commentId)]]

\* SetCommentBody giving the body to every comment of the discussion that
\* holds the comment
SetCommentBodyOfAll(commentId, body) ==
    [i \in 1..Len(discussions) |->
        [discussions[i] EXCEPT !.comments =
            [k \in 1..Len(@) |->
                IF \E j \in 1..Len(@) : @[j].id = commentId
                THEN [id |-> @[k].id, body |-> body]
                ELSE @[k]]]]

SetCommentBody(commentId, body) ==
    [i \in 1..Len(discussions) |->
        [discussions[i] EXCEPT !.comments =
            [k \in 1..Len(@) |-> IF @[k].id = commentId
                                 THEN [id |-> commentId, body |-> body]
                                 ELSE @[k]]]]

CommentExists(commentId) ==
    \E i \in 1..Len(discussions) :
        \E k \in 1..Len(discussions[i].comments) :
            discussions[i].comments[k].id = commentId

(***************************************************************************)
(* The reconciler: main(), index.ts:54-190.  One action for every remote   *)
(* call, with the local computation that follows it up to the next call.   *)
(***************************************************************************)

Idle ==
    [pc         |-> "idle",
     ev         |-> NoEvent,
     category   |-> "unset",    \* repository.discussionCategory
     cycle      |-> None,       \* cycleIdentifier
     searchResult |-> <<>>,     \* ids of searchResult, until it is used
     discussion |-> None,       \* discussion: id, title, body
     comments   |-> <<>>,       \* comments, the in-memory list
     comment    |-> None,       \* comment, the one found for the release
     newBody    |-> <<>>,
     calls      |-> <<>>,       \* the remote calls issued, in order
     error      |-> "none"]     \* core.setFailed

RemoteCalls ==
    {"getRepository", "searchDiscussions", "createDiscussion",
     "getDiscussionById", "deleteDiscussionComment",
     "updateDiscussionComment", "addDiscussionComment", "updateDiscussion"}

Mutations ==
    {"createDiscussion", "deleteDiscussionComment", "updateDiscussionComment",
     "addDiscussionComment", "updateDiscussion"}

Called(l, call) ==
    [l EXCEPT !.calls = Append(@, call)]

\* Start without the draft check of index.ts:61
StartIgnoringDraft(p, ev) ==
    /\ inv[p].pc = "idle"
    /\ ev.release.publishedAt <= Times[now]
    /\ inv' = [inv EXCEPT ![p] =
                  [Idle EXCEPT !.ev = ev, !.pc = "getRepository"]]
    /\ UNCHANGED <<cycleLength, probe, isPrivate, now, discussions, nextId>>

\* index.ts:56-61
Start(p, ev) ==
    /\ inv[p].pc = "idle"
    /\ ev.release.publishedAt <= Times[now]
    /\ inv' = [inv EXCEPT ![p] =
                  [Idle EXCEPT !.ev = ev,
                               !.pc = IF ev.draft THEN "done" ELSE "getRepository"]]
    /\ UNCHANGED <<cycleLength, probe, isPrivate, now, discussions, nextId>>

\* GetRepository without the exit of index.ts:66-69
GetRepositoryNoExit(p, category) ==
    LET l == Called(inv[p], "getRepository")
    IN  /\ inv[p].pc = "getRepository"
        /\ inv' = [inv EXCEPT ![p] =
                      [l EXCEPT
                           !.category = IF category THEN "found" ELSE "missing",
                           !.pc = "searchDiscussions",
                           !.cycle = CycleMarker(
                               getCycleId(l.ev.release.publishedAt, cycleLength))]]
        /\ UNCHANGED <<cycleLength, probe, isPrivate, now, discussions, nextId>>

\* index.ts:63-72
GetRepository(p, category) ==
    LET l == Called(inv[p], "getRepository")
    IN  /\ inv[p].pc = "getRepository"
        /\ inv' = [inv EXCEPT ![p] =
                      IF category
                      THEN [l EXCEPT
                                !.category = "found",
                                !.pc = "searchDiscussions",
                                !.cycle = CycleMarker(
                                    getCycleId(l.ev.release.publishedAt, cycleLength))]
                      ELSE [l EXCEPT !.category = "missing",
                                     !.pc = "exited", !.error = "config"]]
        /\ UNCHANGED <<cycleLength, probe, isPrivate, now, discussions, nextId>>

\* FindDiscussion taking the first result of the search as it comes
FindDiscussionFirst(searchResult, cycleIdentifier) ==
    Find(searchResult, 1..Len(searchResult))

\* index.ts:99   searchResult.find(node => node.body.includes(cycleIdentifier))
FindDiscussion(searchResult, cycleIdentifier) ==
    Find(searchResult,
         {i \in 1..Len(searchResult) :
             Includes(searchResult[i].body, cycleIdentifier)})

\* index.ts:74-104
SearchDiscussions(p, approx) ==
    LET l            == inv[p]
        releaseDate  == l.ev.release.publishedAt
        searchResult == SearchResult(WindowFrom(releaseDate, cycleLength),
                                     WindowTo(releaseDate, cycleLength),
                                     l.cycle, approx)
        discussion   == FindDiscussion(searchResult, l.cycle)
    IN  /\ l.pc = "searchDiscussions"
        /\ inv' = [inv EXCEPT ![p] =
                      [Called(l, "searchDiscussions") EXCEPT
                           !.searchResult = [i \in 1..Len(searchResult) |->
                                                searchResult[i].id],
                           !.discussion = discussion,
                           !.pc = IF discussion # None
                                  THEN "getDiscussionById"
                                  ELSE "createDiscussion"]]
        /\ UNCHANGED <<cycleLength, probe, isPrivate, now, discussions, nextId>>

\* index.ts:107-114, queries.ts:111-126
CreateDiscussion(p) ==
    LET l     == inv[p]
        title == getCycleName(l.ev.release.publishedAt, cycleLength)
        body  == NewDiscussionBody(l.cycle)
    IN  /\ l.pc = "createDiscussion"
        /\ Len(discussions) <= MaxDiscussions
        /\ discussions' = Append(discussions,
                                 [createdAt |-> IsoDay(Times[now]),
                                  title     |-> title,
                                  body      |-> body,
                                  comments  |-> <<>>])
        /\ inv' = [inv EXCEPT ![p] =
                      [Called(l, "createDiscussion") EXCEPT
                           !.searchResult = <<>>,
                           !.discussion = [id    |-> Len(discussions) + 1,
                                           title |-> title,
                                           body  |-> body],
                           !.pc = "getDiscussionById"]]
        /\ UNCHANGED <<cycleLength, probe, isPrivate, now, nextId>>

\* index.ts:126   comments.find(node => node.body.includes(releaseIdentifier))
FindComment(comments, releaseIdentifier) ==
    Find(comments,
         {i \in 1..Len(comments) :
             Includes(comments[i].body, releaseIdentifier)})

\* RebuildToc from the comments as they were fetched, not as this
\* invocation has changed them
RebuildTocFromFetched(l, comments) ==
    LET newBody == ReplaceToc(l.discussion.body, TocMarkdown(l.comments))
    IN  [l EXCEPT !.comments = comments,
                  !.newBody  = newBody,
                  !.pc = IF StripWs(newBody) # StripWs(l.discussion.body)
                         THEN "updateDiscussion"
                         ELSE "done"]

\* RebuildToc comparing the bodies as they are, whitespace included
RebuildTocRaw(l, comments) ==
    LET newBody == ReplaceToc(l.discussion.body, TocMarkdown(comments))
    IN  [l EXCEPT !.comments = comments,
                  !.newBody  = newBody,
                  !.pc = IF newBody # l.discussion.body
                         THEN "updateDiscussion"
                         ELSE "done"]

\* index.ts:149-186   the table of contents rebuilt from the in-memory
\* comments, and whether the discussion body is to be written back
RebuildToc(l, comments) ==
    LET newBody == ReplaceToc(l.discussion.body, TocMarkdown(comments))
    IN  IF TocThrows(comments)
        THEN [l EXCEPT !.comments = comments,
                       !.pc = "failed", !.error = "thrown"]
        ELSE [l EXCEPT !.comments = comments,
                       !.newBody  = newBody,
                       !.pc = IF StripWs(newBody) # StripWs(l.discussion.body)
                              THEN "updateDiscussion"
                              ELSE "done"]

\* CommentBranch without the test for a comment of index.ts:131
CommentBranchNoGuard(isDeleteRequest, comment) ==
    IF isDeleteRequest THEN "deleteDiscussionComment"
    ELSE IF comment # None THEN "updateDiscussionComment"
    ELSE "addDiscussionComment"

\* CommentBranch without the update branch of index.ts:137-141
CommentBranchNoUpdate(isDeleteRequest, comment) ==
    IF isDeleteRequest /\ comment # None THEN "deleteDiscussionComment"
    ELSE IF isDeleteRequest THEN "none"
    ELSE "addDiscussionComment"

\* index.ts:131-147   the branch taken for the release's comment
CommentBranch(isDeleteRequest, comment) ==
    IF isDeleteRequest /\ comment # None THEN "deleteDiscussionComment"
    ELSE IF isDeleteRequest THEN "none"
    ELSE IF comment # None THEN "updateDiscussionComment"
    ELSE "addDiscussionComment"

\* index.ts:117-137
GetDiscussionById(p) ==
    LET l        == [Called(inv[p], "getDiscussionById") EXCEPT
                        !.searchResult = <<>>]
        comments == getDiscussionById(l.discussion.id).comments
        comment  == FindComment(comments,
                                ReleaseMarker(ReleaseName(l.ev.release)))
        branch   == CommentBranch(l.ev.action = "deleted", comment)
    IN  /\ inv[p].pc = "getDiscussionById"
        /\ inv' = [inv EXCEPT ![p] =
                      IF branch = "none"
                      THEN RebuildToc([l EXCEPT !.comment = comment], comments)
                      ELSE [l EXCEPT !.comments = comments,
                                     !.comment  = comment,
                                     !.pc       = branch]]
        /\ UNCHANGED <<cycleLength, probe, isPrivate, now, discussions, nextId>>

\* DeleteDiscussionComment without the filter of index.ts:133
DeleteDiscussionCommentNoFilter(p) ==
    LET l == Called(inv[p], "deleteDiscussionComment")
    IN  /\ inv[p].pc = "deleteDiscussionComment"
        /\ CommentExists(l.comment.id)
        /\ discussions' = RemoveComment(l.comment.id)
        /\ inv' = [inv EXCEPT ![p] = RebuildToc(l, l.comments)]
        /\ UNCHANGED <<cycleLength, probe, isPrivate, now, nextId>>

\* index.ts:132-134, queries.ts:177-192
DeleteDiscussionComment(p) ==
    LET l == Called(inv[p], "deleteDiscussionComment")
    IN  /\ inv[p].pc = "deleteDiscussionComment"
        /\ CommentExists(l.comment.id)
        /\ discussions' = RemoveComment(l.comment.id)
        /\ inv' = [inv EXCEPT ![p] =
                      RebuildToc(l, SelectSeq(l.comments,
                                              LAMBDA x : x.id # l.comment.id))]
        /\ UNCHANGED <<cycleLength, probe, isPrivate, now, nextId>>

\* index.ts:139-141, queries.ts:161-175
UpdateDiscussionComment(p) ==
    LET l       == Called(inv[p], "updateDiscussionComment")
        comment == [id |-> l.comment.id, body |-> CommentBody(l.ev)]
    IN  /\ inv[p].pc = "updateDiscussionComment"
        /\ CommentExists(l.comment.id)
        /\ discussions' = SetCommentBody(comment.id, comment.body)
        /\ inv' = [inv EXCEPT ![p] =
                      RebuildToc([l EXCEPT !.comment = comment],
                                 [k \in 1..Len(l.comments) |->
                                     IF l.comments[k].id = comment.id
                                     THEN comment
                                     ELSE l.comments[k]])]
        /\ UNCHANGED <<cycleLength, probe, isPrivate, now, nextId>>

\* index.ts:144-146, queries.ts:145-159
AddDiscussionComment(p) ==
    LET l       == Called(inv[p], "addDiscussionComment")
        comment == [id |-> nextId, body |-> CommentBody(l.ev)]
    IN  /\ inv[p].pc = "addDiscussionComment"
        /\ nextId <= MaxComments
        /\ discussions' = [discussions EXCEPT ![l.discussion.id].comments =
                              Append(@, comment)]
        /\ nextId' = nextId + 1
        /\ inv' = [inv EXCEPT ![p] =
                      RebuildToc([l EXCEPT !.comment = comment],
                                 Append(l.comments, comment))]
        /\ UNCHANGED <<cycleLength, probe, isPrivate, now>>

\* UpdateDiscussion refusing to write over a body that is no longer the
\* one the invocation fetched
UpdateDiscussionChecked(p) ==
    LET l == Called(inv[p], "updateDiscussion")
    IN  /\ inv[p].pc = "updateDiscussion"
        /\ IF discussions[l.discussion.id].body = l.discussion.body
           THEN /\ discussions' = [discussions EXCEPT
                                      ![l.discussion.id].body = l.newBody]
                /\ inv' = [inv EXCEPT ![p] = [l EXCEPT !.pc = "done"]]
           ELSE /\ discussions' = discussions
                /\ inv' = [inv EXCEPT ![p] =
                              [l EXCEPT !.pc = "failed", !.error = "conflict"]]
        /\ UNCHANGED <<cycleLength, probe, isPrivate, now, nextId>>

\* index.ts:183-186, queries.ts:129-143
UpdateDiscussion(p) ==
    LET l == Called(inv[p], "updateDiscussion")
    IN  /\ inv[p].pc = "updateDiscussion"
        /\ discussions' = [discussions EXCEPT ![l.discussion.id].body = l.newBody]
        /\ inv' = [inv EXCEPT ![p] = [l EXCEPT !.pc = "done"]]
        /\ UNCHANGED <<cycleLength, probe, isPrivate, now, nextId>>

\* RemoteFailure with a catch that does not report the error
RemoteFailureSilent(p) ==
    /\ inv[p].pc \in RemoteCalls
    /\ inv' = [inv EXCEPT ![p] =
                  [Called(inv[p], inv[p].pc) EXCEPT !.pc = "failed"]]
    /\ UNCHANGED <<cycleLength, probe, isPrivate, now, discussions, nextId>>

\* index.ts:187-189   a remote call throws: the error of graphql() or of
\* invariant() in queries.ts is caught and reported, nothing else is done
RemoteFailure(p) ==
    /\ inv[p].pc \in RemoteCalls
    /\ inv' = [inv EXCEPT ![p] =
                  [Called(inv[p], inv[p].pc) EXCEPT
                       !.pc = "failed", !.error = "remote"]]
    /\ UNCHANGED <<cycleLength, probe, isPrivate, now, discussions, nextId>>

\* the process of the invocation ends
Exit(p) ==
    /\ inv[p].pc \in {"done", "failed", "exited"}
    /\ inv' = [inv EXCEPT ![p] = Idle]
    /\ UNCHANGED <<cycleLength, probe, isPrivate, now, discussions, nextId>>

\* time passes between invocations
Tick ==
    /\ \A p \in Procs : inv[p].pc = "idle"
    /\ now < Len(Times)
    /\ now' = now + 1
    /\ UNCHANGED <<cycleLength, probe, isPrivate, discussions, nextId, inv>>

vars == <<cycleLength, probe, isPrivate, now, discussions, nextId, inv>>

NoProbe == [kind |-> "none"]

Init ==
    /\ cycleLength \in {"week", "month"}
    /\ probe = NoProbe
    /\ isPrivate \in BOOLEAN
    /\ now = 1
    /\ discussions = <<ForeignDiscussion>>
    /\ nextId = 1
    /\ inv = [p \in Procs |-> Idle]

\* invocations run one at a time, as under the workflow's concurrency
\* group (src/readme.md:25-27)
Next ==
    \/ \E ev \in Events : Start(1, ev)
    \/ \E category \in BOOLEAN : GetRepository(1, category)
    \/ \E approx \in BOOLEAN : SearchDiscussions(1, approx)
    \/ CreateDiscussion(1)
    \/ GetDiscussionById(1)
    \/ DeleteDiscussionComment(1)
    \/ UpdateDiscussionComment(1)
    \/ AddDiscussionComment(1)
    \/ UpdateDiscussion(1)
    \/ RemoteFailure(1)
    \/ Exit(1)
    \/ Tick

Spec == Init /\ [][Next]_vars

\* the same release event delivered again and again: a run that completed
\* or aborted at a remote call is followed by re-runs of the same event,
\* which probe holds
RerunEvents ==
    {ev \in Events : ~ev.draft /\ ev.action = "created"}

InitRerun ==
    /\ cycleLength \in {"week", "month"}
    /\ probe \in {[kind |-> "rerun", ev |-> ev] : ev \in RerunEvents}
    /\ isPrivate \in BOOLEAN
    /\ now = 1
    /\ discussions = <<ForeignDiscussion>>
    /\ nextId = 1
    /\ inv = [p \in Procs |-> Idle]

NextRerun ==
    \/ Start(1, probe.ev)
    \/ \E category \in BOOLEAN : GetRepository(1, category)
    \/ \E approx \in BOOLEAN : SearchDiscussions(1, approx)
    \/ CreateDiscussion(1)
    \/ GetDiscussionById(1)
    \/ UpdateDiscussionComment(1)
    \/ AddDiscussionComment(1)
    \/ UpdateDiscussion(1)
    \/ RemoteFailure(1)
    \/ Exit(1)
    \/ Tick

SpecRerun == InitRerun /\ [][NextRerun]_vars

(***************************************************************************)
(* Invocations that run at the same time, as they do in a workflow without *)
(* a concurrency group: the remote calls of the two interleave             *)
(***************************************************************************)

\* the discussion of the cycle as createDiscussion leaves it (index.ts:107-114)
CycleDiscussion ==
    [createdAt |-> IsoDay(Times[1]),
     title     |-> getCycleName(Times[1], "week"),
     body      |-> NewDiscussionBody(CycleMarker(getCycleId(Times[1], "week"))),
     comments  |-> <<>>]

\* the releases of the catalogue are published and their cycle has its
\* discussion, which lists no release yet
InitConc ==
    /\ cycleLength = "week"
    /\ probe = NoProbe
    /\ isPrivate = FALSE
    /\ now = Len(Times)
    /\ discussions = <<ForeignDiscussion, CycleDiscussion>>
    /\ nextId = 1
    /\ inv = [p \in Procs |-> Idle]

\* the event each of the two invocations handles: the publication of one
\* of the two releases
EventOf(p) ==
    CHOOSE ev \in RerunEvents :
        (p = 1) <=> (\A o \in Releases : ev.release.publishedAt <= o.publishedAt)

NextConc ==
    \/ \E p \in Procs : Start(p, EventOf(p))
    \/ \E p \in Procs : \E category \in BOOLEAN : GetRepository(p, category)
    \/ \E p \in Procs : \E approx \in BOOLEAN : SearchDiscussions(p, approx)
    \/ \E p \in Procs : GetDiscussionById(p)
    \/ \E p \in Procs : UpdateDiscussionComment(p)
    \/ \E p \in Procs : AddDiscussionComment(p)
    \/ \E p \in Procs : UpdateDiscussion(p)
    \/ \E p \in Procs : RemoteFailure(p)
    \/ \E p \in Procs : Exit(p)

SpecConc == InitConc /\ [][NextConc]_vars

(***************************************************************************)
(* Invocations on a repository whose visibility changes between them: the  *)
(* payload of each event carries repository.private as it is at the event  *)
(***************************************************************************)

\* the releases of the catalogue are published and their cycle has its
\* discussion; the repository is private or public
InitVisibility ==
    /\ cycleLength = "week"
    /\ probe = NoProbe
    /\ isPrivate \in BOOLEAN
    /\ now = Len(Times)
    /\ discussions = <<ForeignDiscussion, CycleDiscussion>>
    /\ nextId = 1
    /\ inv = [p \in Procs |-> Idle]

\* index.ts:58   the repository is made private or public while no
\* invocation runs, so that the next payload carries the new value
SetVisibility(private) ==
    /\ \A p \in Procs : inv[p].pc = "idle"
    /\ isPrivate # private
    /\ isPrivate' = private
    /\ UNCHANGED <<cycleLength, probe, now, discussions, nextId, inv>>

NextVisibility ==
    \/ \E ev \in Events : Start(1, ev)
    \/ \E category \in BOOLEAN : GetRepository(1, category)
    \/ \E approx \in BOOLEAN : SearchDiscussions(1, approx)
    \/ GetDiscussionById(1)
    \/ DeleteDiscussionComment(1)
    \/ UpdateDiscussionComment(1)
    \/ AddDiscussionComment(1)
    \/ UpdateDiscussion(1)
    \/ RemoteFailure(1)
    \/ Exit(1)
    \/ \E private \in BOOLEAN : SetVisibility(private)

SpecVisibility == InitVisibility /\ [][NextVisibility]_vars

(***************************************************************************)
(* Invocations on a discussion of the cycle that people have edited: its   *)
(* body holds the cycle marker followed by any short text, with or without *)
(* the sentinels, and it may hold the comment of a release already         *)
(***************************************************************************)

\* tokens of an edited body after the cycle marker
MaxEdit == 3

PostedEvent ==
    [action  |-> "created", draft |-> FALSE, notes |-> "notes1",
     release |-> CHOOSE r \in Releases : r.publishedAt <= Times[1]]

EditTokens == {Ws, StartToc, EndToc, TocHeader}

EditedTexts(max) ==
    UNION {[1..n -> EditTokens] : n \in 0..max}

InitEdited ==
    /\ cycleLength = "week"
    /\ probe = NoProbe
    /\ isPrivate = FALSE
    /\ now = 1
    /\ \E text \in EditedTexts(MaxEdit) :
       \E posted \in {<<>>, <<[id |-> 1, body |-> CommentBody(PostedEvent)]>>} :
           /\ discussions =
                  <<ForeignDiscussion,
                    [createdAt |-> IsoDay(Times[1]),
                     title     |-> getCycleName(PostedEvent.release.publishedAt,
                                                cycleLength),
                     body      |-> <<CycleMarker(
                                        getCycleId(PostedEvent.release.publishedAt,
                                                   cycleLength))>> \o text,
                     comments  |-> posted]>>
           /\ nextId = Len(posted) + 1
    /\ inv = [p \in Procs |-> Idle]

NextEdited ==
    \/ \E ev \in Events : Start(1, ev)
    \/ \E category \in BOOLEAN : GetRepository(1, category)
    \/ \E approx \in BOOLEAN : SearchDiscussions(1, approx)
    \/ GetDiscussionById(1)
    \/ DeleteDiscussionComment(1)
    \/ UpdateDiscussionComment(1)
    \/ AddDiscussionComment(1)
    \/ UpdateDiscussion(1)
    \/ RemoteFailure(1)
    \/ Exit(1)

SpecEdited == InitEdited /\ [][NextEdited]_vars

(***************************************************************************)
(* Specification of the cycle calculator alone: every timestamp of the     *)
(* probed years, and every week number of each year                        *)
(***************************************************************************)

\* one year for each weekday January 1 can fall on, leap years included
ProbeYears == 2018..2026

ProbeHours == {0, 12, 23}

ProbeDates ==
    {d * DayLen + h : d \in Jan1(2018)..(Jan1(2027) - 1), h \in ProbeHours}

InitCycle ==
    /\ cycleLength \in {"week", "month"}
    /\ probe = NoProbe
    /\ isPrivate = FALSE
    /\ now = 1
    /\ discussions = <<ForeignDiscussion>>
    /\ nextId = 1
    /\ inv = [p \in Procs |-> Idle]

\* main's cycle computation (index.ts:71-80) for one release date
ComputeCycle(t) ==
    /\ probe.kind = "none"
    /\ probe' = [kind |-> "cycle",
                 t    |-> t,
                 id   |-> getCycleId(t, cycleLength),
                 name |-> getCycleName(t, cycleLength),
                 from |-> WindowFrom(t, cycleLength),
                 to   |-> WindowTo(t, cycleLength)]
    /\ UNCHANGED <<cycleLength, isPrivate, now, discussions, nextId, inv>>

\* the window of week w of a year and the week numbers of its two bounds
ComputeWeekBounds(y, w) ==
    /\ probe.kind = "none"
    /\ cycleLength = "week"
    /\ probe' = [kind     |-> "bounds",
                 year     |-> y,
                 w        |-> w,
                 from     |-> getFirstDayOfWeek(w, y),
                 to       |-> getFirstDayOfWeek(w + 1, y),
                 nextFrom |-> getFirstDayOfWeek(w + 1, y),
                 wnFrom   |-> getWeekNumber(getFirstDayOfWeek(w, y)),
                 wnTo     |-> getWeekNumber(getFirstDayOfWeek(w + 1, y))]
    /\ UNCHANGED <<cycleLength, isPrivate, now, discussions, nextId, inv>>

\* the week numbers getWeekNumber gives to the days of year y
WeeksOfYear(y) == 1..getWeekNumber(MakeDate(y + 1, 0, 1) - 1)

NextCycle ==
    \/ \E t \in ProbeDates : ComputeCycle(t)
    \/ \E y \in ProbeYears : \E w \in WeeksOfYear(y) : ComputeWeekBounds(y, w)

SpecCycle == InitCycle /\ [][NextCycle]_vars

\* C1: with granularity week the window computed from a release timestamp
\* contains that timestamp: from <= t < to.
C1_WindowContainsRelease ==
    (probe.kind = "cycle" /\ cycleLength = "week")
        => (probe.from <= probe.t /\ probe.t < probe.to)

\* C2: the two bounds of the window of week w are given the week numbers
\* w and w + 1, and the window of week w ends where that of w + 1 starts.
C2_BoundsMapToAdjacentWeeks ==
    probe.kind = "bounds"
        => /\ probe.wnFrom = probe.w
           /\ probe.wnTo = probe.w + 1
           /\ probe.to = probe.nextFrom

\* C3: with granularity month the window runs from the first day of the
\* release's month to the first day of the following month and contains
\* the release timestamp.
C3_MonthWindow ==
    (probe.kind = "cycle" /\ cycleLength = "month")
        => /\ probe.from = MakeDate(GetFullYear(probe.t), GetMonth(probe.t), 1)
           /\ probe.to = MakeDate(GetFullYear(probe.t), GetMonth(probe.t) + 1, 1)
           /\ probe.from <= probe.t
           /\ probe.t < probe.to

\* C16: with granularity week the identifier and the name of the cycle of
\* a timestamp hold its year and the number n with 7(n - 1) < d <= 7n,
\* d being its day of the year counted from 1; for 2024-03-14 n is 11.
C16_WeekCycleId ==
    (probe.kind = "cycle" /\ cycleLength = "week")
        => LET year == GetFullYear(probe.t)
               d    == DayOf(probe.t) - DayOf(MakeDate(year, 0, 1)) + 1
           IN  /\ probe.id.kind = "week"
               /\ probe.name.kind = "Week"
               /\ probe.id.year = year
               /\ probe.name.year = year
               /\ probe.id.n = probe.name.n
               /\ 7 * (probe.id.n - 1) < d
               /\ d <= 7 * probe.id.n
               /\ DayOf(probe.t) = DayOf(MakeDate(2024, 2, 14))
                      => probe.id = [kind |-> "week", year |-> 2024, n |-> 11]

\* the cycle of a release published on 2024-03-14 was computed
C16_Witness ==
    /\ probe.kind = "cycle"
    /\ cycleLength = "week"
    /\ probe.t = MakeDate(2024, 2, 14) + 12
    /\ probe.name = [kind |-> "Week", year |-> 2024, n |-> 11]

(***************************************************************************)
(* Specification of the table of contents alone: the rendering of          *)
(* index.ts:149-177 applied to every short list of comments                *)
(***************************************************************************)

\* comments of a rendered list
MaxList == 3

\* release names, the part of an identity before its first '@': plain
\* names, a name of Object.prototype, and the empty name that a scoped
\* package (@scope/pkg) is parsed to; versions, one of them "$2"
TocIdents ==
    {<<n, v>> : n \in {"Zpkg", "apkg", "mypkg", "constructor"}, v \in {"v1", "v2"}}
        \cup {<<"", "scope/pkg", "v1">>, <<"apkg", DollarEnd>>}

\* comment bodies: those of releases, and one without a marker
TocBodies ==
    {<<ReleaseMarker(ident), Ws, [t |-> "text", s |-> "notes1"]>> : ident \in TocIdents}
        \cup {<<[t |-> "text", s |-> "a remark"]>>}

CommentLists(max) ==
    UNION {{[k \in 1..n |-> [id |-> k, body |-> bodies[k]]] :
               bodies \in [1..n -> TocBodies]} : n \in 0..max}

\* index.ts:149-177 for one list of comments
RenderToc(comments) ==
    /\ probe.kind = "none"
    /\ probe' = [kind     |-> "toc",
                 comments |-> comments,
                 thrown   |-> TocThrows(comments),
                 toc      |-> IF TocThrows(comments)
                              THEN <<>>
                              ELSE TocMarkdown(comments)]
    /\ UNCHANGED <<cycleLength, isPrivate, now, discussions, nextId, inv>>

\* tokens of a spliced body
MaxBody == 4

BodyTokens ==
    {Ws, StartToc, EndToc, TocHeader, [t |-> "text", s |-> "a remark"]}

\* discussion bodies: the cycle marker and any short text after it
Bodies(max) ==
    {<<CycleMarker([kind |-> "week", year |-> 2025, n |-> 11])>> \o text :
        text \in UNION {[1..n -> BodyTokens] : n \in 0..max}}

\* the tables of the lists of at most one comment
Tocs ==
    {TocMarkdown(comments) :
        comments \in {c \in CommentLists(1) : ~TocThrows(c)}}

\* index.ts:180-181 for one body and one table, and once more on its result
SpliceToc(body, toc) ==
    /\ probe.kind = "none"
    /\ probe' = [kind  |-> "splice",
                 body  |-> body,
                 toc   |-> toc,
                 once  |-> ReplaceToc(body, toc),
                 twice |-> ReplaceToc(ReplaceToc(body, toc), toc)]
    /\ UNCHANGED <<cycleLength, isPrivate, now, discussions, nextId, inv>>

NextToc ==
    \/ \E comments \in CommentLists(MaxList) : RenderToc(comments)
    \/ \E body \in Bodies(MaxBody) : \E toc \in Tocs : SpliceToc(body, toc)

SpecToc == InitCycle /\ [][NextToc]_vars

\* the names and positions of the comments of a list that carry a marker
Marked(comments) ==
    {k \in 1..Len(comments) : \E i \in 1..Len(comments[k].body) :
                                  IsItem(comments[k].body[i])}

MarkerOf(comment) ==
    comment.body[CHOOSE i \in 1..Len(comment.body) : IsItem(comment.body[i])]

\* C15: the rendered table is the header followed by one bullet for each
\* comment that carries a release marker and none for the others; the
\* bullets are in ascending order of release name, and bullets of one
\* name are in the order of their comments.
C15_TocOrdered ==
    probe.kind = "toc"
        => LET comments == probe.comments
               lines    == StripWs(probe.toc)
               bullets  == Tail(lines)
           IN  /\ ~probe.thrown
               /\ lines # <<>>
               /\ Head(lines) = TocHeader
               /\ Len(bullets) = Cardinality(Marked(comments))
               /\ \A j \in 1..Len(bullets) :
                      /\ bullets[j].t = "bullet"
                      /\ bullets[j].url \in Marked(comments)
                      /\ <<bullets[j].name>> \o bullets[j].version
                             = MarkerOf(comments[bullets[j].url]).ident
               /\ \A i, j \in 1..Len(bullets) :
                      i < j => /\ bullets[i].url # bullets[j].url
                               /\ NameRank(bullets[i].name) <= NameRank(bullets[j].name)
                               /\ bullets[i].name = bullets[j].name
                                      => bullets[i].url < bullets[j].url

\* C17: splicing a table into a body a second time changes nothing, and
\* the first splice leaves the body up to its START sentinel and from its
\* END sentinel on as they were, the pair still being the first pair of
\* the result; a body without the pair is returned as it is.
C17_SpliceIdempotentLocal ==
    probe.kind = "splice"
        => LET body == probe.body
               once == probe.once
               rest == Len(body) - TocEnd(body)
           IN  /\ probe.twice = once
               /\ TocStart(body) = 0 => once = body
               /\ TocStart(body) # 0
                      => /\ SubSeq(once, 1, TocStart(body))
                                = SubSeq(body, 1, TocStart(body))
                         /\ SubSeq(once, Len(once) - rest, Len(once))
                                = SubSeq(body, TocEnd(body), Len(body))
                         /\ TocStart(once) = TocStart(body)
                         /\ TocEnd(once) = Len(once) - rest
                         /\ StripWs(SubSeq(once, TocStart(once) + 1, TocEnd(once) - 1))
                                = StripWs(probe.toc)

(***************************************************************************)
(* Specification of the comment pages: the loop of getDiscussionById,      *)
(* queries.ts:73-91, one request at a time, on discussions of up to        *)
(* MaxFetched comments                                                     *)
(***************************************************************************)

MaxFetched == 201

\* the comments of a discussion, the one at position marked being that of
\* the release (none when marked is 0)
Fetched(n, marked) ==
    [k \in 1..n |->
        [id   |-> k,
         body |-> IF k = marked
                  THEN CommentBody(PostedEvent)
                  ELSE <<[t |-> "text", s |-> "a remark"]>>]]

\* positions at the ends of the pages
MarkedPositions(n) ==
    {0} \cup ({1, PageSize, PageSize + 1, 2 * PageSize, 2 * PageSize + 1, n}
                 \cap 1..n)

\* queries.ts:73-75   comments = [], pageInfo undefined
StartFetch(n, marked) ==
    /\ probe.kind = "none"
    /\ probe' = [kind     |-> "fetch",
                 pc       |-> "loop",
                 all      |-> Fetched(n, marked),
                 marked   |-> marked,
                 comments |-> <<>>,
                 pageInfo |-> [hasNextPage |-> FALSE, endCursor |-> 0],
                 requests |-> 0]
    /\ UNCHANGED <<cycleLength, isPrivate, now, discussions, nextId, inv>>

\* FetchPage returning after the first page
FetchPageOnce ==
    /\ probe.kind = "fetch"
    /\ probe.pc = "loop"
    /\ LET result == Page(probe.all, probe.pageInfo.endCursor)
       IN  probe' = [probe EXCEPT
                        !.comments = @ \o result.nodes,
                        !.pageInfo = result.pageInfo,
                        !.requests = @ + 1,
                        !.pc = "returned"]
    /\ UNCHANGED <<cycleLength, isPrivate, now, discussions, nextId, inv>>

\* queries.ts:77-86   one iteration of the do .. while
FetchPage ==
    /\ probe.kind = "fetch"
    /\ probe.pc = "loop"
    /\ LET result == Page(probe.all, probe.pageInfo.endCursor)
       IN  probe' = [probe EXCEPT
                        !.comments = @ \o result.nodes,
                        !.pageInfo = result.pageInfo,
                        !.requests = @ + 1,
                        !.pc = IF result.pageInfo.hasNextPage
                               THEN "loop"
                               ELSE "returned"]
    /\ UNCHANGED <<cycleLength, isPrivate, now, discussions, nextId, inv>>

NextFetch ==
    \/ \E n \in 0..MaxFetched : \E marked \in MarkedPositions(n) :
           StartFetch(n, marked)
    \/ FetchPage

SpecFetch == InitCycle /\ [][NextFetch]_vars

\* C20: the loop asks for the page after the cursor of the page before;
\* after r requests it holds the first r pages in order, it goes on only
\* while comments are left, and it returns, after one request for each
\* page, every comment once and in order; the comment of the release is
\* then found on whatever page it is.
C20_AllPagesFetched ==
    probe.kind = "fetch"
        => LET n == Len(probe.all)
               marker == ReleaseMarker(ReleaseName(PostedEvent.release))
           IN  /\ probe.requests * PageSize <= n + PageSize
               /\ probe.comments = SubSeq(probe.all, 1, Len(probe.comments))
               /\ probe.requests > 0
                      => /\ probe.pageInfo.endCursor = Len(probe.comments)
                         /\ probe.pc = "loop" <=> probe.pageInfo.hasNextPage
               /\ probe.pc = "loop"
                      => /\ Len(probe.comments) = probe.requests * PageSize
                         /\ ENABLED FetchPage
                         /\ probe.requests > 0 => Len(probe.comments) < n
               /\ probe.pc = "returned"
                      => /\ probe.comments = probe.all
                         /\ probe.comments = FetchPages(probe.all, 0)
                         /\ (probe.requests - 1) * PageSize < n \/ n = 0
                         /\ probe.marked # 0
                                => FindComment(probe.comments, marker).id
                                       = probe.marked
                         /\ probe.marked = 0
                                => FindComment(probe.comments, marker) = None

\* the loop has returned the comments of three pages, the release's being
\* the first comment of the third
C20_Witness ==
    /\ probe.kind = "fetch"
    /\ probe.pc = "returned"
    /\ probe.requests = 3
    /\ probe.marked = 2 * PageSize + 1
    /\ Len(probe.comments) = MaxFetched

(***************************************************************************)
(* Properties of the reconciler                                            *)
(***************************************************************************)

\* the discussions of the store whose body holds a cycle marker
WithCycle(marker) ==
    {i \in 1..Len(discussions) : Includes(discussions[i].body, marker)}

\* the comments of discussion i whose body holds a release marker
WithRelease(i, marker) ==
    {k \in 1..Len(discussions[i].comments) :
        Includes(discussions[i].comments[k].body, marker)}

EventMarker(ev) == ReleaseMarker(ReleaseName(ev.release))

AllReleaseMarkers == {ReleaseMarker(ReleaseName(r)) : r \in Releases}

\* the ids of the comments of discussion i that carry a release marker
MarkedIds(i) ==
    {discussions[i].comments[k].id :
        k \in {j \in 1..Len(discussions[i].comments) :
                  \E m \in AllReleaseMarkers :
                      Includes(discussions[i].comments[j].body, m)}}

\* the bullets of the table of contents stored for discussion i
StoredBullets(i) ==
    LET region == TocRegion(discussions[i].body)
    IN  SelectSeq(region, LAMBDA tok : tok.t = "bullet")

BulletUrls(i) == {StoredBullets(i)[k].url : k \in 1..Len(StoredBullets(i))}

\* the stored table of discussion i is the header and one bullet for each
\* of its comments that carry a release marker
TocMatchesComments(i) ==
    LET region == TocRegion(discussions[i].body)
    IN  /\ region # <<>>
        /\ region[1] = TocHeader
        /\ Len(StoredBullets(i)) = Len(region) - 1
        /\ Len(StoredBullets(i)) = Cardinality(MarkedIds(i))
        /\ BulletUrls(i) = MarkedIds(i)

Completed(l) == l.pc = "done" /\ ~l.ev.draft

\* C4: the category never holds two discussions with the same cycle
\* marker, and createDiscussion is issued only when no discussion holds
\* the marker of the release's cycle.
C4_OneDiscussionPerCycle ==
    /\ \A i, j \in 1..Len(discussions) :
           i # j => ~\E k \in 1..Len(discussions[i].body) :
                        /\ discussions[i].body[k].t = "cycle"
                        /\ Includes(discussions[j].body, discussions[i].body[k])
    /\ inv[1].pc = "createDiscussion" => WithCycle(inv[1].cycle) = {}

\* C5: every discussion holds at most one comment carrying a given release
\* marker; addDiscussionComment is issued only when no comment of the
\* discussion holds the marker, and otherwise updateDiscussionComment is
\* issued on the comment that holds it, and none is created.
C5_OneCommentPerRelease ==
    /\ \A i \in 1..Len(discussions) : \A m \in AllReleaseMarkers :
           Cardinality(WithRelease(i, m)) <= 1
    /\ inv[1].pc = "addDiscussionComment"
           => WithRelease(inv[1].discussion.id, EventMarker(inv[1].ev)) = {}
    /\ inv[1].pc = "updateDiscussionComment"
           => \E k \in WithRelease(inv[1].discussion.id, EventMarker(inv[1].ev)) :
                  discussions[inv[1].discussion.id].comments[k].id
                      = inv[1].comment.id
    /\ \A i \in 1..Len(inv[1].calls) :
           inv[1].calls[i] = "updateDiscussionComment"
               => \A j \in 1..Len(inv[1].calls) :
                      inv[1].calls[j] # "addDiscussionComment"

\* an edit of a posted release has updated its comment, which is still
\* the only one of the release
C5_Witness ==
    /\ Completed(inv[1])
    /\ inv[1].calls[Len(inv[1].calls)] = "updateDiscussionComment"
    /\ Cardinality(WithRelease(inv[1].discussion.id, EventMarker(inv[1].ev))) = 1
    /\ Len(discussions[inv[1].discussion.id].comments) = 2

\* C6: re-runs of one non-delete event, after runs that completed or
\* aborted at a remote call, create no second discussion and no second
\* comment, and when one completes there is exactly one discussion of the
\* cycle and one comment of the release, which the table lists.
C6_RerunConverges ==
    LET marker == CycleMarker(getCycleId(probe.ev.release.publishedAt, cycleLength))
        found  == UNION {{<<i, k>> : k \in WithRelease(i, EventMarker(probe.ev))} :
                            i \in 1..Len(discussions)}
    IN  /\ Cardinality(WithCycle(marker)) <= 1
        /\ Cardinality(found) <= 1
        /\ Completed(inv[1])
               => /\ Cardinality(WithCycle(marker)) = 1
                  /\ Cardinality(found) = 1
                  /\ \A i \in WithCycle(marker) :
                         /\ WithRelease(i, EventMarker(probe.ev)) # {}
                         /\ TocMatchesComments(i)

\* C7: after an invocation that completed, the table stored in the body
\* of its discussion is the table of the discussion's comments: one
\* bullet for each comment carrying a release marker, and no other.
C7_TocMatchesComments ==
    Completed(inv[1]) => TocMatchesComments(inv[1].discussion.id)

\* a completed invocation has written a table of two bullets
C7_Witness ==
    /\ Completed(inv[1])
    /\ inv[1].calls[Len(inv[1].calls)] = "updateDiscussion"
    /\ Len(StoredBullets(inv[1].discussion.id)) = 2

\* C8: an invocation for a draft release issues no remote call and ends
\* successfully, whatever the action.
C8_DraftSkipped ==
    (inv[1].pc # "idle" /\ inv[1].ev.draft)
        => /\ inv[1].calls = <<>>
           /\ inv[1].pc = "done"
           /\ inv[1].error = "none"

\* a deleted event of a draft release has ended, in a store that holds a
\* comment it could have deleted
C8_Witness ==
    /\ inv[1].pc = "done"
    /\ inv[1].ev.draft
    /\ inv[1].ev.action = "deleted"
    /\ \E i \in 1..Len(discussions) : WithRelease(i, EventMarker(inv[1].ev)) # {}

\* C9: when getRepository returns no category the invocation has failed
\* with the configuration error and has issued no call but getRepository.
C9_CategoryMissing ==
    inv[1].category = "missing"
        => /\ inv[1].pc = "exited"
           /\ inv[1].error = "config"
           /\ inv[1].calls = <<"getRepository">>

\* the category was not found by an invocation whose cycle has a discussion
C9_Witness ==
    /\ inv[1].category = "missing"
    /\ inv[1].pc = "exited"
    /\ Len(discussions) > 1

\* C10: after a delete whose marker was found, neither the comments of the
\* discussion, nor the in-memory list, nor the stored table hold an entry
\* of the release, and the table still lists every other release comment.
C10_DeleteRemovesEntry ==
    LET l == inv[1]
        d == l.discussion.id
    IN  (Completed(l) /\ l.ev.action = "deleted" /\ l.comment # None)
            => /\ l.calls[Len(l.calls)] \in {"deleteDiscussionComment", "updateDiscussion"}
               /\ \E i \in 1..Len(l.calls) : l.calls[i] = "deleteDiscussionComment"
               /\ ~CommentExists(l.comment.id)
               /\ WithRelease(d, EventMarker(l.ev)) = {}
               /\ \A k \in 1..Len(l.comments) :
                      /\ l.comments[k].id # l.comment.id
                      /\ ~Includes(l.comments[k].body, EventMarker(l.ev))
               /\ l.comment.id \notin BulletUrls(d)
               /\ \A k \in 1..Len(StoredBullets(d)) :
                      <<StoredBullets(d)[k].name>> \o StoredBullets(d)[k].version
                          # ReleaseName(l.ev.release)
               /\ MarkedIds(d) \subseteq BulletUrls(d)
               /\ Len(l.comments) = Len(discussions[d].comments)

\* a release was deleted from a discussion that keeps another release
C10_Witness ==
    /\ Completed(inv[1])
    /\ inv[1].ev.action = "deleted"
    /\ inv[1].comment # None
    /\ Len(StoredBullets(inv[1].discussion.id)) = 1

\* a delete request that found no comment of its release: the comments
\* were fetched and searched, and none holds the marker
DeleteNoMatch(l) ==
    /\ l.pc \in {"updateDiscussion", "done", "failed"}
    /\ ~l.ev.draft
    /\ l.ev.action = "deleted"
    /\ l.comment = None
    /\ \E i \in 1..Len(l.calls) : l.calls[i] = "getDiscussionById"
    /\ ~(l.pc = "failed" /\ l.calls[Len(l.calls)] = "getDiscussionById")

CommentMutations ==
    {"deleteDiscussionComment", "updateDiscussionComment", "addDiscussionComment"}

\* C11 as stated: a delete request whose marker matches no comment issues
\* no comment mutation, leaves the comments and the stored table of the
\* discussion as they were, and ends successfully.
C11_DeleteNoMatchLeavesToc ==
    LET l == inv[1]
        d == l.discussion.id
    IN  DeleteNoMatch(l)
            => /\ \A i \in 1..Len(l.calls) : l.calls[i] \notin CommentMutations
               /\ discussions[d].comments = l.comments
               /\ l.pc = "done" => /\ l.error = "none"
                                   /\ TocRegion(discussions[d].body)
                                          = TocRegion(l.discussion.body)

\* C11, amended: a delete request whose marker matches no comment issues
\* no comment mutation and leaves the comments as they were; the table is
\* still rebuilt from them and written back when it differs from the
\* stored one, after which it lists exactly the unchanged comments; the
\* invocation ends without error unless that write fails.
C11_DeleteNoMatch ==
    LET l == inv[1]
        d == l.discussion.id
    IN  DeleteNoMatch(l)
            => /\ \A i \in 1..Len(l.calls) : l.calls[i] \notin CommentMutations
               /\ discussions[d].comments = l.comments
               /\ \A k \in 1..Len(l.comments) :
                      ~Includes(l.comments[k].body, EventMarker(l.ev))
               /\ l.pc = "done" => /\ l.error = "none"
                                   /\ TocMatchesComments(d)
               /\ l.pc = "updateDiscussion"
                      => TocRegion(l.newBody) # TocRegion(l.discussion.body)
               /\ l.pc = "failed" => l.calls[Len(l.calls)] = "updateDiscussion"

\* a delete request for a release without comment has completed in a
\* discussion that holds the comment of another release, whose table it
\* had no need to write
C11_Witness ==
    /\ DeleteNoMatch(inv[1])
    /\ inv[1].pc = "done"
    /\ inv[1].calls[Len(inv[1].calls)] = "getDiscussionById"
    /\ Len(discussions[inv[1].discussion.id].comments) = 1
    /\ Len(StoredBullets(inv[1].discussion.id)) = 1

\* the invocation has rebuilt the table and decided on the write-back
Rebuilt(l) ==
    \/ l.pc = "updateDiscussion"
    \/ Completed(l)
    \/ l.pc = "failed" /\ l.calls[Len(l.calls)] = "updateDiscussion"

UpdateIssued(l) ==
    \/ l.pc = "updateDiscussion"
    \/ \E i \in 1..Len(l.calls) : l.calls[i] = "updateDiscussion"

\* C12: updateDiscussion is issued exactly when the body with the rebuilt
\* table differs from the fetched body once whitespace is removed; none is
\* issued for a body without the sentinel pair, nor for an edit of a
\* release that the table already lists.
C12_UpdateIffDiffers ==
    LET l == inv[1]
    IN  Rebuilt(l)
            => /\ UpdateIssued(l)
                      <=> StripWs(l.newBody) # StripWs(l.discussion.body)
               /\ TocStart(l.discussion.body) = 0 => ~UpdateIssued(l)
               /\ ~UpdateIssued(l) /\ l.pc = "done"
                      => discussions[l.discussion.id].body = l.discussion.body
               /\ (/\ l.ev.action = "edited"
                   /\ l.calls[Len(l.calls)] # "addDiscussionComment"
                   /\ Len(l.comments) = 1
                   /\ TocRegion(l.discussion.body)
                          = <<TocHeader,
                              TocBullet([name    |-> Head(l.ev.release.name),
                                         version |-> l.ev.release.tag,
                                         url     |-> l.comment.id])>>)
                      => ~UpdateIssued(l)

\* an invocation has completed without a write-back although the body
\* with the rebuilt table differs from the fetched one, in whitespace
C12_Witness ==
    /\ Completed(inv[1])
    /\ ~UpdateIssued(inv[1])
    /\ inv[1].newBody # inv[1].discussion.body
    /\ inv[1].comment # None

\* the calls of a failed invocation that succeeded: all but the last
Succeeded(l, call) ==
    \E i \in 1..(Len(l.calls) - 1) : l.calls[i] = call

\* what the calls that succeeded before the failure did is in the store
EffectsRemain(l) ==
    LET d == l.discussion.id
    IN  /\ Succeeded(l, "createDiscussion")
               => /\ d \in 2..Len(discussions)
                  /\ Includes(discussions[d].body, l.cycle)
        /\ (Succeeded(l, "addDiscussionComment")
                \/ Succeeded(l, "updateDiscussionComment"))
               => \E k \in 1..Len(discussions[d].comments) :
                      discussions[d].comments[k]
                          = [id |-> l.comment.id, body |-> CommentBody(l.ev)]
        /\ Succeeded(l, "deleteDiscussionComment")
               => ~CommentExists(l.comment.id)

\* a step of an invocation that fails or has failed: the failing call is
\* recorded and changes nothing in the store, and a failed invocation
\* does nothing but end
FailureStep ==
    /\ inv[1].pc = "failed"
           => /\ inv'[1] = Idle
              /\ discussions' = discussions
              /\ nextId' = nextId
    /\ (inv[1].pc \in RemoteCalls /\ inv'[1].pc = "failed")
           => /\ inv'[1].calls = Append(inv[1].calls, inv[1].pc)
              /\ discussions' = discussions

FailedState ==
    LET l == inv[1]
    IN  /\ l.error = "remote" <=> l.pc = "failed"
        /\ l.pc = "failed"
               => /\ l.calls # <<>>
                  /\ l.calls[Len(l.calls)] \in RemoteCalls
                  /\ EffectsRemain(l)

\* C13: an invocation in which a remote call has failed is in the failed
\* state with the error reported, the failed call is the last it issued,
\* the effects of the calls before it are in the store, and all it does
\* from there is end, leaving the store as it is.
C13_FailureAborts == []FailedState /\ [][FailureStep]_vars

\* updateDiscussion has failed after a comment was added to a discussion
\* that the invocation created
C13_Witness ==
    /\ inv[1].pc = "failed"
    /\ inv[1].calls[Len(inv[1].calls)] = "updateDiscussion"
    /\ Succeeded(inv[1], "createDiscussion")
    /\ Succeeded(inv[1], "addDiscussionComment")
    /\ CommentExists(inv[1].comment.id)

\* the comments of the store that carry a release marker, each with the
\* discussion that holds it
Carrying(marker) ==
    UNION {{<<i, k>> : k \in WithRelease(i, marker)} : i \in 1..Len(discussions)}

\* C14: after a completed created or edited invocation the comment that
\* carries the release marker is one, and its body is the one built from
\* the event; when the release had a comment, that comment was
\* overwritten where it stood, under its id.
C14_CommentHasEventBody ==
    LET l == inv[1]
        d == l.discussion.id
    IN  (Completed(l) /\ l.ev.action # "deleted")
            => /\ Cardinality(Carrying(EventMarker(l.ev))) = 1
               /\ \A c \in Carrying(EventMarker(l.ev)) :
                      discussions[c[1]].comments[c[2]].body = CommentBody(l.ev)
               /\ l.comments = discussions[d].comments
               /\ \E k \in 1..Len(l.comments) :
                      l.comments[k] = [id |-> l.comment.id, body |-> CommentBody(l.ev)]

\* the search has returned discussions, none of which holds the marker
FalsePositivesOnly(l) ==
    /\ l.searchResult # <<>>
    /\ \A i \in 1..Len(l.searchResult) :
           ~Includes(discussions[l.searchResult[i]].body, l.cycle)

\* C18: the discussion an invocation works on holds the exact marker of
\* the release's cycle; a search that returns only discussions without it
\* uses none of them and leads to createDiscussion; and every comment of
\* a release is in a discussion that holds the marker of its cycle.
C18_ExactMarkerOnly ==
    LET l == inv[1]
    IN  /\ l.discussion # None
               => Includes(discussions[l.discussion.id].body, l.cycle)
        /\ (l.pc \in {"createDiscussion", "getDiscussionById"}
                /\ l.calls[Len(l.calls)] = "searchDiscussions")
               => /\ l.discussion # None
                         => \E i \in 1..Len(l.searchResult) :
                                l.searchResult[i] = l.discussion.id
                  /\ l.pc = "createDiscussion" <=> l.discussion = None
                  /\ FalsePositivesOnly(l) => l.pc = "createDiscussion"
        /\ \A r \in Releases :
               LET marker == CycleMarker(getCycleId(r.publishedAt, cycleLength))
               IN  \A i \in 1..Len(discussions) :
                       WithRelease(i, ReleaseMarker(ReleaseName(r))) # {}
                           => Includes(discussions[i].body, marker)
        /\ \A i \in 1..Len(discussions) :
               discussions[i].comments # <<>>
                   => \E k \in 1..Len(discussions[i].body) :
                          discussions[i].body[k].t = "cycle"

\* the search has returned the discussion that this program did not
\* write and no other, and the invocation is about to create one
C18_Witness ==
    /\ inv[1].pc = "createDiscussion"
    /\ FalsePositivesOnly(inv[1])
    /\ inv[1].searchResult = <<1>>

\* a step of invocation p out of updateDiscussion that is not the failure
\* of the call writes the body the invocation has computed, whatever the
\* body of the discussion has become since it was fetched
Overwrites(p) ==
    (inv[p].pc = "updateDiscussion" /\ inv'[p] # inv[p] /\ inv'[p].error # "remote")
        => /\ inv'[p].pc = "done"
           /\ inv'[p].error = "none"
           /\ discussions'[inv[p].discussion.id].body = inv[p].newBody

\* C19: nothing guards the body update of an invocation against one made
\* by another since the body was fetched: the update goes through and
\* replaces that body.  (C19_Witness is the execution the claim speaks of.)
C19_UpdateOverwrites == [][\A p \in Procs : Overwrites(p)]_vars

\* both invocations have completed with a body update, the discussion
\* holds the comments of the two releases, and its table lists one
C19_Witness ==
    /\ \A p \in Procs :
           /\ Completed(inv[p])
           /\ inv[p].error = "none"
           /\ inv[p].calls[Len(inv[p].calls)] = "updateDiscussion"
           /\ inv[p].discussion.id = 2
           /\ WithRelease(2, EventMarker(inv[p].ev)) # {}
    /\ inv[1].ev.release # inv[2].ev.release
    /\ Len(discussions[2].comments) = 2
    /\ Len(StoredBullets(2)) = 1

\* the title line of a comment body: what follows "### " up to the end of
\* the line, which is the one title token of the body
TitleLines(body) ==
    SelectSeq(body, LAMBDA tok : tok.t = "title")

\* the comment of the store with the given id
StoredComment(store, commentId) ==
    LET i == CHOOSE i \in 1..Len(store) :
                 \E k \in 1..Len(store[i].comments) :
                     store[i].comments[k].id = commentId
        k == CHOOSE k \in 1..Len(store[i].comments) :
                 store[i].comments[k].id = commentId
    IN  store[i].comments[k]

\* a step in which addDiscussionComment or updateDiscussionComment writes
\* a comment: the body written has one title line, which names the release
\* of the event, and which holds html_url exactly when the repository of
\* the payload is not private
WritesTitle ==
    (/\ inv[1].pc \in {"addDiscussionComment", "updateDiscussionComment"}
     /\ discussions' # discussions)
        => LET written == StoredComment(discussions', inv'[1].comment.id)
               title   == TitleLines(written.body)
           IN  /\ Len(title) = 1
               /\ title[1].ident = ReleaseName(inv[1].ev.release)
               /\ isPrivate => title[1].link = "none"
               /\ ~isPrivate => title[1].link = "html_url"

\* C21: the title line of a comment body written by a create or an update
\* is the release identity name@tag alone, without html_url, when the
\* repository of the release is private, and the link from the release
\* identity to html_url when it is not.
C21_TitleByVisibility == [][WritesTitle]_vars

\* the discussion of the cycle holds a comment written while the
\* repository was private and one written while it was public, and the
\* invocation that wrote the later of the two has completed
C21_Witness ==
    /\ inv[1].pc = "done"
    /\ \E k \in 1..Len(inv[1].calls) :
           inv[1].calls[k] \in {"addDiscussionComment", "updateDiscussionComment"}
    /\ \E c, d \in 1..Len(discussions[2].comments) :
           /\ TitleLines(discussions[2].comments[c].body)[1].link = "none"
           /\ TitleLines(discussions[2].comments[d].body)[1].link = "html_url"

\* the number of calls of the invocation that are among the given ones
Issued(l, calls) ==
    Cardinality({k \in 1..Len(l.calls) : l.calls[k] \in calls})

\* what one invocation has issued: at most one createDiscussion, at most
\* one comment mutation, at most one updateDiscussion, and for a delete
\* event neither addDiscussionComment nor updateDiscussionComment
OwnCallsOnly ==
    LET l == inv[1]
    IN  /\ Issued(l, {"createDiscussion"}) <= 1
        /\ Issued(l, CommentMutations) <= 1
        /\ Issued(l, {"updateDiscussion"}) <= 1
        /\ (l.ev.action = "deleted")
               => Issued(l, {"addDiscussionComment", "updateDiscussionComment"}) = 0

\* the comments of a list other than the one with the given id
OtherComments(comments, commentId) ==
    SelectSeq(comments, LAMBDA c : c.id # commentId)

\* the comment that a step of the invocation out of a comment mutation
\* is about: the one found for the release, or the one about to be added
TargetComment(l) ==
    IF l.pc = "addDiscussionComment" THEN nextId ELSE l.comment.id

\* what a step of the invocation changes in the store: no discussion
\* goes away; one is added by createDiscussion alone; no title or creation
\* date changes; a body changes by updateDiscussion alone, and it is the
\* body of the invocation's discussion, which holds the marker of the
\* release's cycle; comments change by a comment mutation alone, in the
\* invocation's discussion alone, and leave every comment but the one
\* carrying the release's marker as it was and where it was
OwnTargetsOnly ==
    LET l == inv[1]
        n == Len(discussions)
    IN  /\ Len(discussions') >= n
        /\ Len(discussions') > n
               => l.pc = "createDiscussion" /\ Len(discussions') = n + 1
        /\ \A i \in 1..n :
               /\ discussions'[i].title = discussions[i].title
               /\ discussions'[i].createdAt = discussions[i].createdAt
               /\ discussions'[i].body # discussions[i].body
                      => /\ l.pc = "updateDiscussion"
                         /\ i = l.discussion.id
                         /\ Includes(discussions[i].body, l.cycle)
               /\ discussions'[i].comments # discussions[i].comments
                      => /\ l.pc \in CommentMutations
                         /\ i = l.discussion.id
                         /\ OtherComments(discussions'[i].comments, TargetComment(l))
                                = OtherComments(discussions[i].comments,
                                                TargetComment(l))
                         /\ \A c \in {discussions[i].comments[k] :
                                          k \in 1..Len(discussions[i].comments)}
                                  \cup {discussions'[i].comments[k] :
                                          k \in 1..Len(discussions'[i].comments)} :
                                c.id = TargetComment(l)
                                    => Includes(c.body, EventMarker(l.ev))

\* C22: one invocation never deletes a discussion, creates at most one,
\* mutates at most one comment, which carries the marker of its release,
\* changes the body of no discussion but the one of the release's cycle,
\* creates and updates no comment for a delete event, and leaves every
\* other discussion and comment of the store as it was.
C22_OwnTargetsOnly == []OwnCallsOnly /\ [][OwnTargetsOnly]_vars

\* the invocation has added the comment of its release to a discussion
\* that held the comment of another, and has written the body of that
\* discussion, while the store holds a discussion that is not its own
C22_Witness ==
    LET l == inv[1]
    IN  /\ l.pc = "done"
        /\ Issued(l, {"addDiscussionComment"}) = 1
        /\ Issued(l, {"updateDiscussion"}) = 1
        /\ Len(discussions[l.discussion.id].comments) = 2
        /\ \E j \in 1..Len(discussions) :
               j # l.discussion.id /\ discussions[j] = ForeignDiscussion

====
